---- MODULE Spec2Model ----
(***************************************************************************)
(* A model of the aethergraph example programs whose behaviour is a state  *)
(* machine:                                                                *)
(*   - demo_examples/6_crash_resume_static_graph.py  (restart_minimal,     *)
(*     resumable_work and its checkpoint file),                            *)
(*   - pattern_examples/1_state_resumption/1_resume_external_waits.py      *)
(*     (hello_resume and its WAITING_HUMAN node),                          *)
(*   - method_showcase/7_concurrency/1_graphify_concurrency.py (map_reduce)*)
(*   - method_showcase/7_concurrency/2_graph_fn_concurrency.py             *)
(*     (batch_agent and its semaphore),                                    *)
(*   - method_showcase/6_extending_services/5_critical_mutex_usage.py      *)
(*     (CounterService under critical()).                                  *)
(* The graph runner (run_async / run) is not part of the examples; its     *)
(* scheduling and snapshot rules are modelled from the specification.      *)
(***************************************************************************)
EXTENDS Integers, Sequences, FiniteSets, TLC

(***************************************************************************)
(* Program constants.                                                      *)
(***************************************************************************)
CkptEvery == 8
MAX_WORKERS == 5
\* sem = asyncio.Semaphore(4)
SemaphoreTooWide == 4 + 1
SemaphoreValue == 4

\* crash_at = None
NoCrash == 0 - 1
\* No checkpoint written yet.
NoCkpt == 0 - 1

(***************************************************************************)
(* Bounds of the model.                                                    *)
(***************************************************************************)
MaxN == 17
MaxLives == 3
MaxItems == 7
NWorkers == 3
NIncr == 3
MaxAsks == 3
MaxClientPolls == 3
MaxReasks == 2
MaxRestarts == 2

\* Inputs the runs are given.
Xs == {2, 7}
Ns == {0, CkptEvery, MaxN - 1, MaxN}
Names == {"Ann", "Bo"}
ValsChoices == { <<1, 2, 3, 4, 5>>, <<3, 0, 2, 0, 1>> }


(***************************************************************************)
(* Text.  A run id is a sequence of characters; a file name is the run id  *)
(* followed by the rest of the name as one piece.                          *)
(***************************************************************************)
NodeIdResumable == "resumable_2"

MainRun == <<"a">>
RunIds == { <<"a">>, <<"b">>, <<".","/","a">> }

\* f"{run_id}__{node_id}.json", the name joined to ./.ckpt
_ckpt_path(run_id, node_id) ==
    run_id \o << "__" \o node_id \o ".json" >>

\* The file of ./.ckpt that open() reaches through a joined name: the
\* "." components of the name are the directory itself.
RECURSIVE FileOf(_)
FileOf(name) ==
    IF Len(name) >= 2 /\ name[1] = "." /\ name[2] = "/"
    THEN FileOf(SubSeq(name, 3, Len(name)))
    ELSE name

FileNames == { FileOf(_ckpt_path(r, NodeIdResumable)) : r \in RunIds }

Absent == [kind |-> "absent", i |-> 0, acc |-> 0]
\* A file that exists and does not parse: open(path, "w") has truncated it
\* and json.dump has not completed.
Torn == [kind |-> "torn", i |-> 0, acc |-> 0]
Json(i, acc) == [kind |-> "json", i |-> i, acc |-> acc]

\* state = {"i": 0, "acc": 0}; replaced by json.load when the file exists
\* and parses.
\* ok is FALSE when the load raises out of resumable_work.
LoadStateUncaught(content) ==
    IF content.kind = "json"
    THEN [ok |-> TRUE, i |-> content.i, acc |-> content.acc]
    ELSE [ok |-> content.kind = "absent", i |-> 0, acc |-> 0]
LoadState(content) ==
    IF content.kind = "json"
    THEN [ok |-> TRUE, i |-> content.i, acc |-> content.acc]
    ELSE [ok |-> TRUE, i |-> 0, acc |-> 0]

\* if i % 8 == 0 or i == n
CheckpointDue(i, n) == i % CkptEvery = 0 \/ i = n

\* crash_at is not None and i == crash_at
CrashNow(i, c) == c # NoCrash /\ i = c

(***************************************************************************)
(* The graphs.                                                             *)
(***************************************************************************)
PickIds == <<"pick_0", "pick_1", "pick_2", "pick_3", "pick_4">>
WorkIds == <<"work_0", "work_1", "work_2", "work_3", "work_4">>
Range(s) == { s[j] : j \in 1..Len(s) }

NodesOf(g) ==
    CASE g = "restart_minimal" -> {"fast_ok_1", "resumable_2", "combine_3"}
      [] g = "hello_resume" ->
            {"send_text_5", "ask_text_6", "format_message_7", "send_text_8"}
      [] g = "map_reduce" -> Range(PickIds) \cup Range(WorkIds) \cup {"reduce_sum"}

\* The nodes a node waits for: its _after list and the nodes whose outputs
\* are its arguments.
DepsNoJoin(g, nd) ==
    CASE nd = "combine_3" -> {"fast_ok_1"}
      [] nd = "ask_text_6" -> {"send_text_5"}
      [] nd = "format_message_7" -> {"ask_text_6"}
      [] nd = "send_text_8" -> {"format_message_7"}
      [] OTHER -> {}
Deps(g, nd) ==
    CASE nd = "combine_3" -> {"fast_ok_1", "resumable_2"}
      [] nd = "ask_text_6" -> {"send_text_5"}
      [] nd = "format_message_7" -> {"ask_text_6"}
      [] nd = "send_text_8" -> {"format_message_7"}
      [] nd \in Range(WorkIds) ->
            { PickIds[j] : j \in { m \in 1..MAX_WORKERS : WorkIds[m] = nd } }
      [] nd = "reduce_sum" -> Range(WorkIds)
      [] OTHER -> {}

\* max_concurrency as the __main__ blocks pass it.
MaxConcurrency(g) ==
    CASE g = "restart_minimal" -> {2}
      [] g = "hello_resume" -> {1}
      [] g = "map_reduce" -> 1..MAX_WORKERS

\* Graphs run under a run_id the caller can reuse.
Resumable(g) == g \in {"restart_minimal", "hello_resume"}

\* The tools.
fast_ok(x) == x * 3
combine(a, b) == a + b
format_message_swapped(greeting, name) ==
    name \o " Nice to meet you, " \o greeting \o "."
format_message(greeting, name) ==
    greeting \o " Nice to meet you, " \o name \o "."
pick(items, index) == items[index + 1]
work_add(x) == x + 2
work(x) == x * 2
RECURSIVE SumSeq(_)
SumSeq(xs) == IF xs = <<>> THEN 0 ELSE xs[1] + SumSeq(Tail(xs))
reduce_sum(xs) == SumSeq(xs)

IndexOf(s, e) == CHOOSE j \in 1..Len(s) : s[j] = e

(***************************************************************************)
(* State.                                                                  *)
(***************************************************************************)
VARIABLES
    graph,      \* the graph this program runs
    k,          \* max_concurrency of the run
    in_x, in_n, \* inputs of restart_minimal
    vals,       \* input of map_reduce
    allowed,    \* the run ids the user passes
    proc,       \* "up" while a process executes the run, "down" otherwise
    lives,      \* processes launched so far
    run_id,     \* run id of the latest process
    crash_at,   \* CRASH_AT of the latest process
    status,     \* node -> pending | running | waiting_human | succeeded | failed
    out,        \* node -> its output
    execs,      \* node -> times the node's tool started under run_id
    chan,       \* texts sent to the channel
    reply,      \* the inbound reply, "" before it arrives
    stray,      \* a process was interrupted while ask_text_6 was not waiting
    rw,         \* resumable_work's frame: pc, i, acc
    files,      \* ./.ckpt: file -> content
    owner,      \* file -> run id whose resumable_work wrote it last
    used,       \* run ids launched so far
    hist,       \* history of resumable_work under run_id
    items,      \* batch_agent: the input list
    sem,        \* batch_agent: the semaphore's value
    task,       \* batch_agent: task -> pending | in_flight | done
    results,    \* batch_agent: task -> what run_capped returned
    sends,      \* batch_agent: task -> "processing x" messages sent
    ys,         \* batch_agent: the returned list
    bpc,        \* batch_agent: gather | returned
    critical,   \* counter_demo: incr is wrapped by critical()
    value,      \* CounterService._value
    lock,       \* the service mutex: its holder, 0 when free
    wk,         \* counter_demo: worker -> [pc, calls]
    final_value, \* counter_demo: the returned final_value
    raced,      \* counter_demo: a call of incr began while another was suspended in it
    memory,     \* the chat_turn records mem.record() stored, oldest first
    chat,       \* chat_agent_with_memory's frame
    jobs,       \* JobManagerService.jobs: job_id -> JobState
    calls,      \* caller -> the poll_status call it has in progress
    jlog,       \* job_id -> what poll_status returned for it, and its artifacts
    mon,        \* long_job_monitor's frame
    wiz,        \* channel_wizard's frame
    run_config_json, \* ./run_config.json: the times written and the content
    saved       \* the artifacts channel_wizard saved

gvars == <<graph, k, in_x, in_n, vals, allowed, proc, lives, run_id, crash_at,
           status, out, execs, chan, reply, stray>>
cvars == <<rw, files, owner, used, hist>>
bvars == <<items, sem, task, results, sends, ys, bpc>>
mvars == <<critical, value, lock, wk, final_value, raced>>
avars == <<memory, chat, jobs, calls, jlog, mon, wiz, run_config_json, saved>>
vars == <<gvars, cvars, bvars, mvars, avars>>

(***************************************************************************)
(* Initial states: the program before its first process is launched.       *)
(***************************************************************************)
\*   start_i, start_acc  the state resumable_work entered its loop with
\*   kind                 what the checkpoint file was at node start
\*   load_failed          the load raised out of resumable_work
\*   from                 the run id that wrote the file found at node start
\*   fresh                run_id was never launched before this process
\*   last_i, last_acc     the last checkpoint json.dump completed
\*   max_done             the highest i reached by a completed loop pass
\*                        (its checkpoint, when due, written)
NoHist == [start_i |-> 0, start_acc |-> 0, kind |-> "none", load_failed |-> FALSE,
           from |-> <<>>, fresh |-> TRUE, last_i |-> NoCkpt, last_acc |-> 0,
           max_done |-> 0]

\* No frame of resumable_work exists.
IdleFrame == [pc |-> "idle", i |-> 0, acc |-> 0]

DefaultOut(g) == IF g = "hello_resume" THEN "" ELSE 0

\* batch_agent and counter_demo before they are run.
InitBatchIdle ==
    /\ items = <<>>
    /\ sem = SemaphoreValue
    /\ task = <<>>
    /\ results = <<>>
    /\ sends = <<>>
    /\ ys = <<>>
    /\ bpc = "returned"

InitCounterIdle ==
    /\ critical = TRUE
    /\ value = 0
    /\ lock = 0
    /\ wk = <<>>
    /\ final_value = 0
    /\ raced = FALSE

\* No chat session, job or wizard exists.
NoFrame == [pc |-> "idle"]
NoFile == [writes |-> 0, content |-> <<>>]
InitChatIdle ==
    /\ memory = <<>>
    /\ chat = NoFrame
InitJobsIdle ==
    /\ jobs = <<>>
    /\ calls = <<>>
    /\ jlog = <<>>
    /\ mon = NoFrame
InitWizardIdle ==
    /\ wiz = NoFrame
    /\ run_config_json = NoFile
    /\ saved = <<>>

InitGraph(g, ids, xs, ns) ==
    /\ InitBatchIdle
    /\ InitCounterIdle
    /\ InitChatIdle
    /\ InitJobsIdle
    /\ InitWizardIdle
    /\ graph = g
    /\ k \in MaxConcurrency(g)
    /\ in_x \in xs
    /\ in_n \in ns
    /\ vals \in (IF g = "map_reduce" THEN ValsChoices ELSE {<<>>})
    /\ allowed = ids
    /\ proc = "down"
    /\ lives = 0
    /\ run_id = <<>>
    /\ crash_at = NoCrash
    /\ status = [nd \in NodesOf(g) |-> "pending"]
    /\ out = [nd \in NodesOf(g) |-> DefaultOut(g)]
    /\ execs = [nd \in NodesOf(g) |-> 0]
    /\ chan = <<>>
    /\ reply = ""
    /\ stray = FALSE
    /\ rw = IdleFrame
    /\ files = [f \in FileNames |-> Absent]
    /\ owner = [f \in FileNames |-> <<>>]
    /\ used = {}
    /\ hist = NoHist

(***************************************************************************)
(* The process: python <demo>.py [run_id], and its interruption.           *)
(***************************************************************************)
\* CRASH_AT unset, or an iteration at which a checkpoint is written, or the
\* iteration after one.
CrashChoices ==
    IF graph = "restart_minimal"
    THEN {NoCrash} \cup { c \in 0..in_n : c % CkptEvery \in {0, 1} }
    ELSE {NoCrash}

\* What the runner recovers of a node from the snapshot of the same run_id:
\* completed nodes and waiting continuations are kept, the rest runs again.
RecoverReplay(s) == "pending"
Recover(s) == IF s \in {"succeeded", "waiting_human"} THEN s ELSE "pending"

Launch(r, c) ==
    /\ proc = "down"
    /\ lives < (IF Resumable(graph) THEN MaxLives ELSE 1)
    /\ proc' = "up"
    /\ lives' = lives + 1
    /\ run_id' = r
    /\ crash_at' = c
    /\ used' = used \cup {r}
    /\ IF r = run_id
       THEN /\ status' = [nd \in NodesOf(graph) |-> Recover(status[nd])]
            /\ hist' = [hist EXCEPT !.fresh = FALSE]
            /\ UNCHANGED <<out, execs, chan, reply, stray>>
       ELSE /\ status' = [nd \in NodesOf(graph) |-> "pending"]
            /\ out' = [nd \in NodesOf(graph) |-> DefaultOut(graph)]
            /\ execs' = [nd \in NodesOf(graph) |-> 0]
            /\ chan' = <<>>
            /\ reply' = ""
            /\ stray' = FALSE
            /\ hist' = [NoHist EXCEPT !.fresh = (r \notin used)]
    /\ UNCHANGED <<bvars, mvars, avars>>
    /\ UNCHANGED <<graph, k, in_x, in_n, vals, allowed, rw, files, owner>>

\* Ctrl+C, a kill or a crash of the process, at any point of the run.
Interrupt ==
    /\ proc = "up"
    /\ Resumable(graph)
    /\ lives < MaxLives
    /\ proc' = "down"
    /\ rw' = IdleFrame
    /\ stray' = (stray \/ (graph = "hello_resume" /\ status["ask_text_6"] # "waiting_human"))
    /\ UNCHANGED <<bvars, mvars, avars>>
    /\ UNCHANGED <<graph, k, in_x, in_n, vals, allowed, lives, run_id, crash_at,
                   status, out, execs, chan, reply, files, owner, used, hist>>

(***************************************************************************)
(* The scheduler.                                                          *)
(***************************************************************************)
Running == { nd \in NodesOf(graph) : status[nd] = "running" }

\* A node is ready when all its dependencies succeeded; it starts when fewer
\* than max_concurrency nodes are executing.
CanStartUncapped(nd) ==
    /\ proc = "up"
    /\ status[nd] = "pending"
    /\ \A d \in Deps(graph, nd) : status[d] = "succeeded"
CanStart(nd) ==
    /\ proc = "up"
    /\ status[nd] = "pending"
    /\ \A d \in Deps(graph, nd) : status[d] = "succeeded"
    /\ Cardinality(Running) < k

ToolResult(nd) ==
    CASE nd = "fast_ok_1" -> fast_ok(in_x)
      [] nd = "combine_3" -> combine(out["fast_ok_1"], out["resumable_2"])
      [] nd = "format_message_7" -> format_message("ok", out["ask_text_6"])
      [] nd \in Range(PickIds) -> pick(vals, IndexOf(PickIds, nd) - 1)
      [] nd \in Range(WorkIds) -> work(out[PickIds[IndexOf(WorkIds, nd)]])
      [] nd = "reduce_sum" -> reduce_sum([j \in 1..MAX_WORKERS |-> out[WorkIds[j]]])
      [] OTHER -> DefaultOut(graph)

\* What a send_text node sends when it completes.
Sent(nd) ==
    CASE nd = "send_text_5" -> <<"Starting the resume demo...">>
      [] nd = "send_text_8" -> <<out["format_message_7"]>>
      [] OTHER -> <<>>

PlainNodes == NodesOf(graph) \ {"resumable_2", "ask_text_6"}

StartNode(nd) ==
    /\ nd \in PlainNodes
    /\ CanStart(nd)
    /\ status' = [status EXCEPT ![nd] = "running"]
    /\ execs' = [execs EXCEPT ![nd] = @ + 1]
    /\ UNCHANGED <<bvars, mvars, avars>>
    /\ UNCHANGED <<graph, k, in_x, in_n, vals, allowed, proc, lives, run_id,
                   crash_at, out, chan, reply, stray, cvars>>

FinishNode(nd) ==
    /\ nd \in PlainNodes
    /\ proc = "up"
    /\ status[nd] = "running"
    /\ status' = [status EXCEPT ![nd] = "succeeded"]
    /\ out' = [out EXCEPT ![nd] = ToolResult(nd)]
    /\ chan' = chan \o Sent(nd)
    /\ UNCHANGED <<bvars, mvars, avars>>
    /\ UNCHANGED <<graph, k, in_x, in_n, vals, allowed, proc, lives, run_id,
                   crash_at, execs, reply, stray, cvars>>

(***************************************************************************)
(* resumable_work (node resumable_2).                                      *)
(***************************************************************************)
CkptFile == FileOf(_ckpt_path(run_id, NodeIdResumable))

Max(a, b) == IF a >= b THEN a ELSE b

\* Node start up to the first await: load the checkpoint, read CRASH_AT.
StartResumable ==
    /\ graph = "restart_minimal"
    /\ CanStart("resumable_2")
    /\ execs' = [execs EXCEPT !["resumable_2"] = @ + 1]
    /\ LET st == LoadState(files[CkptFile]) IN
         /\ status' = [status EXCEPT !["resumable_2"] =
                          IF st.ok THEN "running" ELSE "failed"]
         /\ rw' = IF st.ok THEN [pc |-> "loop", i |-> st.i, acc |-> st.acc]
                           ELSE IdleFrame
         /\ hist' = [hist EXCEPT !.start_i = st.i, !.start_acc = st.acc,
                                 !.kind = files[CkptFile].kind,
                                 !.load_failed = ~st.ok,
                                 !.from = owner[CkptFile]]
    /\ UNCHANGED <<bvars, mvars, avars>>
    /\ UNCHANGED <<graph, k, in_x, in_n, vals, allowed, proc, lives, run_id,
                   crash_at, out, chan, reply, stray, files, owner, used>>

\* One pass of "while i < n": the sleep, acc += i, i += 1, then either
\* open(path, "w"), which truncates the file, or the crash test; when the
\* loop test fails, the return.
RwStep ==
    /\ graph = "restart_minimal"
    /\ proc = "up"
    /\ rw.pc = "loop"
    /\ IF rw.i < in_n
       THEN LET i2 == rw.i + 1
                acc2 == rw.acc + rw.i
            IN  /\ UNCHANGED out
                /\ IF CheckpointDue(i2, in_n)
                   THEN /\ files' = [files EXCEPT ![CkptFile] = Torn]
                        /\ UNCHANGED hist
                        /\ owner' = [owner EXCEPT ![CkptFile] = run_id]
                        /\ rw' = [pc |-> "dump", i |-> i2, acc |-> acc2]
                        /\ UNCHANGED status
                   ELSE /\ UNCHANGED <<files, owner>>
                        /\ hist' = [hist EXCEPT !.max_done = Max(@, i2)]
                        /\ IF CrashNow(i2, crash_at)
                           THEN /\ rw' = IdleFrame
                                /\ status' = [status EXCEPT !["resumable_2"] = "failed"]
                           ELSE /\ rw' = [pc |-> "loop", i |-> i2, acc |-> acc2]
                                /\ UNCHANGED status
       ELSE /\ rw' = IdleFrame
            /\ status' = [status EXCEPT !["resumable_2"] = "succeeded"]
            /\ out' = [out EXCEPT !["resumable_2"] = rw.acc]
            /\ UNCHANGED <<files, owner, hist>>
    /\ UNCHANGED <<bvars, mvars, avars>>
    /\ UNCHANGED <<graph, k, in_x, in_n, vals, allowed, proc, lives, run_id,
                   crash_at, execs, chan, reply, stray, used>>

\* json.dump completes and the file is closed; then the crash test.
RwDump ==
    /\ graph = "restart_minimal"
    /\ proc = "up"
    /\ rw.pc = "dump"
    /\ files' = [files EXCEPT ![CkptFile] = Json(rw.i, rw.acc)]
    /\ hist' = [hist EXCEPT !.last_i = rw.i, !.last_acc = rw.acc,
                            !.max_done = Max(@, rw.i)]
    /\ IF CrashNow(rw.i, crash_at)
       THEN /\ rw' = IdleFrame
            /\ status' = [status EXCEPT !["resumable_2"] = "failed"]
       ELSE /\ rw' = [rw EXCEPT !.pc = "loop"]
            /\ UNCHANGED status
    /\ UNCHANGED <<bvars, mvars, avars>>
    /\ UNCHANGED <<graph, k, in_x, in_n, vals, allowed, proc, lives, run_id,
                   crash_at, out, execs, chan, reply, stray, owner, used>>

(***************************************************************************)
(* ask_text (node ask_text_6).                                             *)
(***************************************************************************)
StartAsk ==
    /\ graph = "hello_resume"
    /\ CanStart("ask_text_6")
    /\ status' = [status EXCEPT !["ask_text_6"] = "running"]
    /\ execs' = [execs EXCEPT !["ask_text_6"] = @ + 1]
    /\ UNCHANGED <<bvars, mvars, avars>>
    /\ UNCHANGED <<graph, k, in_x, in_n, vals, allowed, proc, lives, run_id,
                   crash_at, out, chan, reply, stray, cvars>>

\* The prompt is sent, the continuation is persisted and the node yields.
AskSuspend ==
    /\ graph = "hello_resume"
    /\ proc = "up"
    /\ status["ask_text_6"] = "running"
    /\ status' = [status EXCEPT !["ask_text_6"] = "waiting_human"]
    /\ chan' = Append(chan, "What's your name?")
    /\ UNCHANGED <<bvars, mvars, avars>>
    /\ UNCHANGED <<graph, k, in_x, in_n, vals, allowed, proc, lives, run_id,
                   crash_at, out, execs, reply, stray, cvars>>

\* The inbound message resumes the waiting node with the text as its output.
HumanReply(t) ==
    /\ graph = "hello_resume"
    /\ proc = "up"
    /\ status["ask_text_6"] = "waiting_human"
    /\ status' = [status EXCEPT !["ask_text_6"] = "succeeded"]
    /\ out' = [out EXCEPT !["ask_text_6"] = t]
    /\ reply' = t
    /\ UNCHANGED <<bvars, mvars, avars>>
    /\ UNCHANGED <<graph, k, in_x, in_n, vals, allowed, proc, lives, run_id,
                   crash_at, execs, chan, stray, cvars>>

(***************************************************************************)
(* Specifications.                                                         *)
(***************************************************************************)
LaunchAny == \E r \in allowed : \E c \in CrashChoices : Launch(r, c)
StartAny == \E nd \in NodesOf(graph) : StartNode(nd)
FinishAny == \E nd \in NodesOf(graph) : FinishNode(nd)
ReplyAny == \E t \in Names : HumanReply(t)

NextRestart ==
    \/ LaunchAny
    \/ Interrupt
    \/ StartAny
    \/ FinishAny
    \/ StartResumable
    \/ RwStep
    \/ RwDump

NextHello ==
    \/ LaunchAny
    \/ Interrupt
    \/ StartAny
    \/ FinishAny
    \/ StartAsk
    \/ AskSuspend
    \/ ReplyAny

NextMap ==
    \/ LaunchAny
    \/ StartAny
    \/ FinishAny

NextGraphs ==
    \/ LaunchAny
    \/ Interrupt
    \/ StartAny
    \/ FinishAny
    \/ StartResumable
    \/ RwStep
    \/ RwDump
    \/ StartAsk
    \/ AskSuspend
    \/ ReplyAny

\* What the runner does by itself: everything but the user's reply and the
\* interruption of the process.
RunnerHello ==
    \/ LaunchAny
    \/ StartAny
    \/ FinishAny
    \/ StartAsk
    \/ AskSuspend

\* 6_crash_resume_static_graph.py, always given the same run id.
SpecRestart == InitGraph("restart_minimal", {MainRun}, Xs, Ns) /\ [][NextRestart]_vars
\* 6_crash_resume_static_graph.py, given any of the run ids.
SpecKeys == InitGraph("restart_minimal", RunIds, {7}, {CkptEvery + 1}) /\ [][NextRestart]_vars
\* 1_resume_external_waits.py
SpecHello == InitGraph("hello_resume", {MainRun}, {0}, {0}) /\ [][NextHello]_vars
\* 1_graphify_concurrency.py
SpecMap == InitGraph("map_reduce", {MainRun}, {0}, {0}) /\ [][NextMap]_vars
\* The three graphs run through run / run_async.
SpecGraphs ==
    /\ \/ InitGraph("restart_minimal", {MainRun}, Xs, Ns)
       \/ InitGraph("hello_resume", {MainRun}, {0}, {0})
       \/ InitGraph("map_reduce", {MainRun}, {0}, {0})
    /\ [][NextGraphs]_vars
\* 1_resume_external_waits.py with a runner that keeps going and a user who
\* relaunches an interrupted run.
FairSpecHello == SpecHello /\ WF_vars(RunnerHello)

(***************************************************************************)
(* Properties.                                                             *)
(***************************************************************************)
\* 0 + 1 + ... + (n-1)
TriangleSum(n) == (n * (n - 1)) \div 2

IsRestart == graph = "restart_minimal"
IsHello == graph = "hello_resume"

\* resumable_work stands at its first loop test, right after the load.
AtNodeStart == rw.pc = "loop" /\ rw.i = hist.start_i

AllSucceeded == \A nd \in NodesOf(graph) : status[nd] = "succeeded"

\* C1: under one run_id, a run that follows crashed or interrupted runs loads
\* the last written checkpoint and continues from its (i, acc), and a run
\* that completes returns 0 + 1 + ... + (n-1).
C1_ResumeFromLastCheckpoint ==
    IsRestart =>
        /\ (AtNodeStart /\ hist.last_i # NoCkpt) =>
                (rw.i = hist.last_i /\ rw.acc = hist.last_acc)
        /\ status["resumable_2"] = "succeeded" =>
                out["resumable_2"] = TriangleSum(in_n)

\* C4: combine_3 runs only once fast_ok_1 and resumable_2 both succeeded, and
\* the graph output is 3*x + (0 + 1 + ... + (n-1)).
C4_CombineAfterBoth ==
    IsRestart =>
        /\ status["combine_3"] \in {"running", "succeeded"} =>
                (status["fast_ok_1"] = "succeeded" /\ status["resumable_2"] = "succeeded")
        /\ execs["combine_3"] > 0 =>
                (execs["fast_ok_1"] > 0 /\ execs["resumable_2"] > 0)
        /\ status["combine_3"] = "succeeded" =>
                out["combine_3"] = 3 * in_x + TriangleSum(in_n)
\* The graph completed in a process that resumed from a checkpoint.
C4_Witness ==
    /\ IsRestart
    /\ status["combine_3"] = "succeeded"
    /\ hist.kind = "json"
    /\ hist.start_i > 0
    /\ hist.start_i < in_n

\* C5: never more than max_concurrency nodes execute at once, with
\* max_concurrency 2 for restart_minimal, 1 for hello_resume and at most
\* MAX_WORKERS for map_reduce.
C5_BoundedConcurrency ==
    /\ Cardinality(Running) <= k
    /\ IsRestart => k = 2
    /\ IsHello => k = 1
    /\ graph = "map_reduce" => k \in 1..5
\* fast_ok_1 and resumable_2 execute in parallel.
C5_Witness ==
    /\ IsRestart
    /\ status["fast_ok_1"] = "running"
    /\ status["resumable_2"] = "running"

\* C6: a checkpoint file belongs to one run id: the file of a run id was
\* written only under that run id, resumable_work loads only a checkpoint
\* written under its own run id, and a run id never used before starts from
\* i = 0, acc = 0.
C6_KeyedByRunAndNode ==
    IsRestart =>
        /\ \A r \in used :
              owner[FileOf(_ckpt_path(r, NodeIdResumable))] \in {<<>>, r}
        /\ (execs["resumable_2"] > 0 /\ hist.kind = "json") => hist.from = run_id
        /\ (execs["resumable_2"] > 0 /\ hist.fresh) =>
                (hist.start_i = 0 /\ hist.start_acc = 0)

\* C7: with the checkpoint file absent or unreadable at node start,
\* resumable_work does not fail on the load, starts from i = 0, acc = 0, and
\* a run that completes returns the value of a first run.
C7_FreshWhenAbsentOrUnreadable ==
    IsRestart =>
        /\ ~hist.load_failed
        /\ hist.kind \in {"absent", "torn"} =>
              /\ hist.start_i = 0
              /\ hist.start_acc = 0
              /\ status["resumable_2"] = "succeeded" =>
                    out["resumable_2"] = TriangleSum(in_n)
\* A run found an unreadable checkpoint file and completed.
C7_Witness ==
    /\ IsRestart
    /\ hist.kind = "torn"
    /\ in_n > 0
    /\ status["resumable_2"] = "succeeded"

\* C8: a checkpoint is written exactly after the iterations with i a
\* multiple of 8 or i = n, and a resumed run has at most 7 completed
\* iterations to redo.
C8_CheckpointEvery8 ==
    IsRestart =>
        /\ rw.pc = "dump" => (rw.i % 8 = 0 \/ rw.i = in_n)
        /\ (rw.pc = "loop" /\ rw.i > hist.start_i /\ (rw.i % 8 = 0 \/ rw.i = in_n)) =>
                hist.last_i = rw.i
        /\ (rw.pc = "loop" /\ rw.i > hist.start_i /\ hist.last_i = rw.i) =>
                (rw.i % 8 = 0 \/ rw.i = in_n)
        /\ AtNodeStart => hist.max_done - rw.i <= 7

\* C2: format_message_7 and send_text_8 never start before the reply to
\* ask_text_6 has arrived, the completed run's final is
\* "ok Nice to meet you, <reply>.", and once the reply has arrived the run
\* completes.
C2_Safety ==
    IsHello =>
        /\ (execs["format_message_7"] > 0 \/ execs["send_text_8"] > 0) => reply \in Names
        /\ reply = "" =>
              (status["format_message_7"] = "pending" /\ status["send_text_8"] = "pending")
        /\ AllSucceeded =>
              out["format_message_7"] = "ok Nice to meet you, " \o reply \o "."
C2_WaitsForReplyThenCompletes ==
    /\ []C2_Safety
    /\ (reply # "") ~> AllSucceeded
\* The reply arrived and the run completed with the final message.
C2_Witness ==
    /\ IsHello
    /\ reply = "Ann"
    /\ AllSucceeded
    /\ out["format_message_7"] = "ok Nice to meet you, Ann."
    /\ chan = <<"Starting the resume demo...", "What's your name?",
                "ok Nice to meet you, Ann.">>

\* C3: when the process is interrupted only while ask_text_6 waits, the
\* relaunched run stands at ask_text_6 (waiting, or resumed by the reply),
\* send_text_5 has executed exactly once and no node executes twice.
C3_ResumeWithoutReplay ==
    (IsHello /\ ~stray) =>
        /\ \A nd \in NodesOf(graph) : execs[nd] <= 1
        /\ lives >= 2 =>
              /\ status["ask_text_6"] \in {"waiting_human", "succeeded"}
              /\ status["send_text_5"] = "succeeded"
              /\ execs["send_text_5"] = 1
        /\ AllSucceeded => \A nd \in NodesOf(graph) : execs[nd] = 1
\* The run completed after an interruption during the wait.
C3_Witness ==
    /\ IsHello
    /\ ~stray
    /\ lives >= 2
    /\ AllSucceeded

(***************************************************************************)
(* batch_agent (2_graph_fn_concurrency.py).                                *)
(***************************************************************************)
NoGraph ==
    /\ graph = "none"
    /\ k = 1
    /\ in_x = 0
    /\ in_n = 0
    /\ vals = <<>>
    /\ allowed = {}
    /\ proc = "down"
    /\ lives = 0
    /\ run_id = <<>>
    /\ crash_at = NoCrash
    /\ status = <<>>
    /\ out = <<>>
    /\ execs = <<>>
    /\ chan = <<>>
    /\ reply = ""
    /\ stray = FALSE
    /\ rw = IdleFrame
    /\ files = [f \in FileNames |-> Absent]
    /\ owner = [f \in FileNames |-> <<>>]
    /\ used = {}
    /\ hist = NoHist

\* Items are sequences of characters.
ItemPool == << <<"f","i","g">>, <<"D","a","t","e">>, <<"k","i","w","i">> >>
\* The lists given as items: up to MaxItems items taken round the pool.
ItemLists ==
    { [j \in 1..n |-> ItemPool[((j + o) % Len(ItemPool)) + 1]] :
        n \in 0..MaxItems, o \in 0..(Len(ItemPool) - 1) }

Lower == <<"a","d","e","f","g","i","k","n","q","t","u","w","x">>
Upper == <<"A","D","E","F","G","I","K","N","Q","T","U","W","X">>
\* str.upper(), character by character
upper_char(c) ==
    IF c \in Range(Lower) THEN Upper[IndexOf(Lower, c)] ELSE c
upper(x) == [j \in 1..Len(x) |-> upper_char(x[j])]

InitBatch ==
    /\ NoGraph
    /\ InitCounterIdle
    /\ InitChatIdle
    /\ InitJobsIdle
    /\ InitWizardIdle
    /\ items \in ItemLists
    /\ sem = SemaphoreValue
    /\ task = [t \in 1..Len(items) |-> "pending"]
    /\ results = [t \in 1..Len(items) |-> <<>>]
    /\ sends = [t \in 1..Len(items) |-> 0]
    /\ ys = <<>>
    /\ bpc = "gather"

\* run_capped enters "async with sem" and calls one(x), which awaits send_text.
Acquire(t) ==
    /\ bpc = "gather"
    /\ task[t] = "pending"
    /\ sem > 0
    /\ sem' = sem - 1
    /\ task' = [task EXCEPT ![t] = "in_flight"]
    /\ UNCHANGED <<items, results, sends, ys, bpc, gvars, cvars, mvars, avars>>

\* send_text returns, one(x) returns {"y": x.upper()}, the semaphore is released.
Release(t) ==
    /\ bpc = "gather"
    /\ task[t] = "in_flight"
    /\ sends' = [sends EXCEPT ![t] = @ + 1]
    /\ results' = [results EXCEPT ![t] = upper(items[t])]
    /\ sem' = sem + 1
    /\ task' = [task EXCEPT ![t] = "done"]
    /\ UNCHANGED <<items, ys, bpc, gvars, cvars, mvars, avars>>

\* gather returns the results in the order of the tasks; the fan-in.
GatherReturn ==
    /\ bpc = "gather"
    /\ \A t \in 1..Len(items) : task[t] = "done"
    /\ ys' = [t \in 1..Len(items) |-> results[t]]
    /\ bpc' = "returned"
    /\ UNCHANGED <<items, sem, task, results, sends, gvars, cvars, mvars, avars>>

AcquireAny == \E t \in 1..Len(items) : Acquire(t)
ReleaseAny == \E t \in 1..Len(items) : Release(t)

NextBatch ==
    \/ AcquireAny
    \/ ReleaseAny
    \/ GatherReturn

SpecBatch == InitBatch /\ [][NextBatch]_vars
\* The event loop runs every task that can run.
FairSpecBatch == SpecBatch /\ WF_vars(NextBatch)

InFlight == { t \in 1..Len(items) : task[t] = "in_flight" }

\* What the upper-cased items of the pool are.
Uppercased(x) ==
    CASE x = <<"f","i","g">> -> <<"F","I","G">>
      [] x = <<"D","a","t","e">> -> <<"D","A","T","E">>
      [] x = <<"k","i","w","i">> -> <<"K","I","W","I">>

\* C9: never more than 4 invocations of one() are in flight, every item is
\* processed exactly once and gather returns, and ys lists the upper-cased
\* items in input order.
C9_Safety ==
    /\ Cardinality(InFlight) <= 4
    /\ \A t \in 1..Len(items) : sends[t] <= 1
    /\ \A t \in 1..Len(items) : (task[t] = "done") <=> (sends[t] = 1)
    /\ (graph = "none" /\ bpc = "returned") =>
          /\ \A t \in 1..Len(items) : sends[t] = 1
          /\ Len(ys) = Len(items)
          /\ \A t \in 1..Len(items) : ys[t] = Uppercased(items[t])
C9_CappedFanOut ==
    /\ []C9_Safety
    /\ <>(bpc = "returned")
\* Seven items were submitted, four are in flight and three wait.
C9_Witness ==
    /\ graph = "none"
    /\ Len(items) = 7
    /\ Cardinality(InFlight) = 4
    /\ Cardinality({ t \in 1..Len(items) : task[t] = "pending" }) = 3

(***************************************************************************)
(* counter_demo and CounterService (5_critical_mutex_usage.py).            *)
(***************************************************************************)
\* counter_demo has not returned.
NotReturned == 0 - 1

Workers == 1..NWorkers

InitCounter(wrapped) ==
    /\ NoGraph
    /\ InitBatchIdle
    /\ InitChatIdle
    /\ InitJobsIdle
    /\ InitWizardIdle
    /\ critical = wrapped
    /\ value = 0
    /\ lock = 0
    /\ wk = [w \in Workers |-> [pc |-> "idle", calls |-> 0]]
    /\ final_value = NotReturned
    /\ raced = FALSE

\* self._value += n
IncrAssign(v, n) == n
IncrValue(v, n) == v + n

\* A worker calls incr(1): under critical() it takes the mutex when it is
\* free; then self._value += 1 runs up to "await asyncio.sleep(0)".
IncrEnter(w) ==
    /\ wk /= <<>>
    /\ wk[w].pc = "idle"
    /\ wk[w].calls < NIncr
    /\ critical => lock = 0
    /\ lock' = IF critical THEN w ELSE lock
    /\ value' = IncrValue(value, 1)
    /\ wk' = [wk EXCEPT ![w].pc = "sleeping"]
    /\ raced' = (raced \/ \E o \in Workers : wk[o].pc = "sleeping")
    /\ UNCHANGED <<critical, final_value, gvars, cvars, bvars, avars>>

\* The sleep is over: incr returns self._value and the mutex is released.
IncrReturn(w) ==
    /\ wk /= <<>>
    /\ wk[w].pc = "sleeping"
    /\ lock' = IF critical THEN 0 ELSE lock
    /\ wk' = [wk EXCEPT ![w] = [pc |-> "idle", calls |-> @.calls + 1]]
    /\ UNCHANGED <<critical, value, final_value, raced, gvars, cvars, bvars, avars>>

\* gather returned: final_value = await counter.incr(0)
FinalReadIncrOne ==
    /\ wk /= <<>>
    /\ final_value = NotReturned
    /\ \A w \in Workers : wk[w].pc = "idle" /\ wk[w].calls = NIncr
    /\ value' = IncrValue(value, 1)
    /\ final_value' = IncrValue(value, 1)
    /\ UNCHANGED <<critical, lock, wk, raced, gvars, cvars, bvars, avars>>
FinalRead ==
    /\ wk /= <<>>
    /\ final_value = NotReturned
    /\ \A w \in Workers : wk[w].pc = "idle" /\ wk[w].calls = NIncr
    /\ value' = IncrValue(value, 0)
    /\ final_value' = IncrValue(value, 0)
    /\ UNCHANGED <<critical, lock, wk, raced, gvars, cvars, bvars, avars>>

IncrEnterAny == \E w \in Workers : IncrEnter(w)
IncrReturnAny == \E w \in Workers : IncrReturn(w)

NextCounter ==
    \/ IncrEnterAny
    \/ IncrReturnAny
    \/ FinalRead

\* counter_demo as written: incr wrapped by critical().
SpecCounter == InitCounter(TRUE) /\ [][NextCounter]_vars
\* The variant the docstring speaks of: incr not wrapped.
SpecCounterBare == InitCounter(FALSE) /\ [][NextCounter]_vars

\* The calls of incr(1) the workers 1..w have completed.
RECURSIVE CallsDone(_)
CallsDone(w) == IF w = 0 THEN 0 ELSE wk[w].calls + CallsDone(w - 1)

\* C10: with incr under the mutex, no update is lost (the counter is the
\* number of increments made so far) and in every interleaving of the workers the
\* final counter value is (number of workers) * (calls per worker).
C10_NoLostUpdate ==
    (wk /= <<>> /\ critical) =>
        /\ value = CallsDone(NWorkers) + Cardinality({ w \in Workers : wk[w].pc = "sleeping" })
        /\ (\A w \in Workers : wk[w].calls = NIncr) => value = NWorkers * NIncr
        /\ final_value # NotReturned => final_value = NWorkers * NIncr
\* counter_demo returned its final value.
C10_Witness ==
    /\ wk /= <<>>
    /\ critical
    /\ final_value # NotReturned

lower_char(c) ==
    IF c \in Range(Upper) THEN Lower[IndexOf(Upper, c)] ELSE c
lower(x) == [j \in 1..Len(x) |-> lower_char(x[j])]
RECURSIVE lstrip(_)
lstrip(x) == IF x # <<>> /\ Head(x) = " " THEN lstrip(Tail(x)) ELSE x
RECURSIVE rstrip(_)
rstrip(x) ==
    IF x # <<>> /\ x[Len(x)] = " " THEN rstrip(SubSeq(x, 1, Len(x) - 1)) ELSE x
strip(x) == rstrip(lstrip(x))

\* What the user types at "You:".
UserTexts ==
    { <<>>, <<" ">>, <<"h","i">>, <<"q","u","i","t">>, <<" ","E","x","i","t"," ">>,
      <<"q","u","i","t","e">> }
\* What llm.chat returns.
Replies == { <<"f","i","n","e">>, <<>> }

Turn(role, text) == [isdict |-> TRUE, role |-> role, text |-> text]
\* The two turns seed_chat_memory_demo records.
SeedTurns ==
    << Turn("user", <<"We talked about integrating AetherGraph into my project.">>),
       Turn("assistant", <<"I suggested starting with a simple graph_fn and adding services later.">>) >>
\* What earlier sessions under the same run_id left in memory: nothing, or a
\* user turn and an assistant turn whose text the LLM returned empty.
EarlierMemories ==
    { <<>>, << Turn("user", <<"h","i">>), Turn("assistant", <<>>) >> }

\* mem.recent_data(kinds=["chat_turn"], limit=50): the last limit records.
recent_data(mem, limit) ==
    IF Len(mem) <= limit THEN mem ELSE SubSeq(mem, Len(mem) - limit + 1, Len(mem))

\* The try/except around the load: what previous_turns is bound to, and
\* whether the exception leaves the agent.
LoadPreviousUncaught(outcome, mem) ==
    IF outcome = "raise"
    THEN [failed |-> TRUE, previous_turns |-> <<>>]
    ELSE [failed |-> FALSE, previous_turns |-> recent_data(mem, 50)]
LoadPrevious(outcome, mem) ==
    IF outcome = "raise"
    THEN [failed |-> FALSE, previous_turns |-> <<>>]
    ELSE [failed |-> FALSE, previous_turns |-> recent_data(mem, 50)]

\* The loop over previous_turns: the turns appended to conversation.
RECURSIVE LoadedTurns(_)
LoadedTurns(ds) ==
    IF ds = <<>> THEN <<>>
    ELSE LET d == Head(ds)
         IN  IF d.isdict /\ d.role \in {"user", "assistant"} /\ d.text # <<>>
             THEN <<[role |-> d.role, text |-> d.text]>> \o LoadedTurns(Tail(ds))
             ELSE LoadedTurns(Tail(ds))

Msg(kind, n, text) == [kind |-> kind, n |-> n, text |-> text]

InitChat ==
    /\ NoGraph
    /\ InitBatchIdle
    /\ InitCounterIdle
    /\ InitJobsIdle
    /\ InitWizardIdle
    /\ memory \in EarlierMemories
    /\ chat = [pc |-> "main", conversation |-> <<>>, previous_turns |-> <<>>,
               raised |-> FALSE, sent |-> <<>>, at_loop |-> <<>>, asks |-> 0,
               summary_text |-> <<>>, result |-> [turns |-> 0, summary |-> <<>>]]

\* main(): seed_chat_memory_demo records its two turns, or the agent is run
\* on the memory as it is.
SeedChatMemory ==
    /\ chat.pc = "main"
    /\ \E seed \in BOOLEAN :
          memory' = IF seed THEN memory \o SeedTurns ELSE memory
    /\ chat' = [chat EXCEPT !.pc = "start"]
    /\ UNCHANGED <<gvars, cvars, bvars, mvars, jobs, calls, jlog, mon, wiz,
                   run_config_json, saved>>

\* Warmup, lines 118-131: mem.recent_data returns or raises.
ChatLoad ==
    /\ chat.pc = "start"
    /\ \E outcome \in {"ok", "raise"} :
          LET r == LoadPrevious(outcome, memory)
          IN  chat' = [chat EXCEPT !.pc = IF r.failed THEN "failed" ELSE "warmup",
                                   !.raised = (outcome = "raise"),
                                   !.previous_turns = r.previous_turns]
    /\ UNCHANGED <<memory, gvars, cvars, bvars, mvars, jobs, calls, jlog, mon, wiz,
                   run_config_json, saved>>

\* Lines 133-152: previous turns go into conversation and the session is
\* announced; then the agent enters its loop.
ChatWarmup ==
    /\ chat.pc = "warmup"
    /\ LET turns == IF chat.previous_turns # <<>>
                    THEN LoadedTurns(chat.previous_turns) ELSE <<>>
           hello == IF chat.previous_turns # <<>>
                    THEN Msg("loaded", Len(turns), <<>>)
                    ELSE Msg("new_session", 0, <<>>)
       IN  chat' = [chat EXCEPT !.pc = "ask",
                                !.conversation = turns,
                                !.at_loop = turns,
                                !.sent = @ \o <<hello, Msg("type_quit", 0, <<>>)>>]
    /\ UNCHANGED <<memory, gvars, cvars, bvars, mvars, jobs, calls, jlog, mon, wiz,
                   run_config_json, saved>>

\* One pass of the chat loop, lines 155-200, for what the user typed.
ChatAsk(user, answer) ==
    /\ chat.pc = "ask"
    /\ chat.asks < MaxAsks
    /\ IF user = <<>>
       THEN /\ chat' = [chat EXCEPT !.asks = @ + 1]
            /\ UNCHANGED memory
       ELSE IF lower(strip(user)) \in { <<"q","u","i","t">>, <<"e","x","i","t">> }
       THEN /\ chat' = [chat EXCEPT !.asks = @ + 1, !.pc = "summary",
                                    !.sent = Append(@, Msg("ending", 0, <<>>))]
            /\ UNCHANGED memory
       ELSE /\ chat' = [chat EXCEPT !.asks = @ + 1,
                          !.conversation = @ \o <<[role |-> "user", text |-> user],
                                                  [role |-> "assistant", text |-> answer]>>,
                          !.sent = Append(@, Msg("reply", 0, answer))]
            /\ memory' = memory \o <<Turn("user", user), Turn("assistant", answer)>>
    /\ UNCHANGED <<gvars, cvars, bvars, mvars, jobs, calls, jlog, mon, wiz,
                   run_config_json, saved>>

\* Lines 203-238: the summary is sent, the artifact is saved (a failure is
\* logged) and the agent returns.
ChatSummarize(summary) ==
    /\ chat.pc = "summary"
    /\ chat' = [chat EXCEPT !.pc = "done",
                            !.summary_text = summary,
                            !.sent = Append(@, Msg("summary", 0, summary)),
                            !.result = [turns |-> Len(chat.conversation),
                                        summary |-> summary]]
    /\ UNCHANGED <<memory, gvars, cvars, bvars, mvars, jobs, calls, jlog, mon, wiz,
                   run_config_json, saved>>

ChatAskAny == \E user \in UserTexts : \E answer \in Replies : ChatAsk(user, answer)
ChatSummarizeAny == \E summary \in Replies : ChatSummarize(summary)

NextChat ==
    \/ SeedChatMemory
    \/ ChatLoad
    \/ ChatWarmup
    \/ ChatAskAny
    \/ ChatSummarizeAny

SpecChat == InitChat /\ [][NextChat]_vars

IsChat == chat.pc # "idle"

\* C12: when mem.recent_data raised, the agent does not fail: previous_turns
\* is the empty list, the conversation buffer the loop starts with is empty,
\* the first message announces a new session and the agent reaches its loop.
C12_MemoryReadFallback ==
    (IsChat /\ chat.raised) =>
        /\ chat.pc \in {"warmup", "ask", "summary", "done"}
        /\ chat.previous_turns = <<>>
        /\ chat.pc # "warmup" =>
              /\ chat.at_loop = <<>>
              /\ Len(chat.sent) >= 2
              /\ chat.sent[1].kind = "new_session"
              /\ chat.sent[2].kind = "type_quit"
              /\ \A j \in 1..Len(chat.sent) : chat.sent[j].kind # "loaded"
\* The read raised although memory held turns, and the agent is in its loop
\* answering the user.
C12_Witness ==
    /\ IsChat
    /\ chat.raised
    /\ memory # <<>>
    /\ chat.pc = "ask"
    /\ Len(chat.conversation) = 2
    /\ chat.sent[1].kind = "new_session"

(***************************************************************************)
(* JobManagerService and long_job_monitor (2_long_job_monitor.py).         *)
(* Job ids are uuid4 strings: every new job gets an id no job had before,  *)
(* here the next natural number.                                           *)
(***************************************************************************)
max_polls_before_done == 4
base_delay == 1
max_delay == 8

\* Python's None, for error_message and for error_artifact_uri.
None == "None"
NoUri == [kind |-> "None", job_id |-> 0]
\* saved.uri of the job_error artifact of a job
ErrorUri(job_id) == [kind |-> "job_error", job_id |-> job_id]

JobSpecs == { "train_model --dataset=demo --epochs=5" }
\* What ask_approval returns as the choice.
Choices == { "Retry", "Abort", "retry" }
\* The callers of poll_status: the monitor, and one other client of the
\* registered service.
Callers == { "monitor", "client" }

JobState(job_spec, fail_first_attempt) ==
    [job_spec |-> job_spec, status |-> "pending", poll_count |-> 0,
     max_polls_before_done |-> max_polls_before_done,
     fail_first_attempt |-> fail_first_attempt,
     error_message |-> None, error_artifact_uri |-> NoUri]

StatusInfo(job_status, error_message, error_artifact_uri) ==
    [status |-> job_status, error_message |-> error_message,
     error_artifact_uri |-> error_artifact_uri]

NoCall == [pc |-> "idle", job_id |-> 0]
NoLog == [reports |-> <<>>, artifacts |-> 0]

InitJobs ==
    /\ NoGraph
    /\ InitBatchIdle
    /\ InitCounterIdle
    /\ InitChatIdle
    /\ InitWizardIdle
    /\ jobs = <<>>
    /\ calls = [c \in Callers |-> NoCall]
    /\ jlog = <<>>
    /\ \E spec \in JobSpecs :
          mon = [pc |-> "start", job_spec |-> spec, job_id |-> 0, delay |-> 0,
                 status_info |-> StatusInfo("pending", None, NoUri),
                 response |-> "", sleeps |-> <<>>, polled |-> <<>>,
                 retried |-> <<>>, client_polls |-> 0,
                 result |-> [job_id |-> 0, status |-> "none", error |-> None,
                             error_artifact_uri |-> NoUri]]

\* poll_status up to its return or to "await arts.save" in
\* _record_failure_artifact; ctx tells whether self.ctx() gave a context.
\* Gives the job's new state, what is returned (when it returns here) and
\* whether the call is suspended in the save.
PollStep(job, ctx) ==
    LET counted == [job EXCEPT !.poll_count = @ + 1]
    IN  IF job.status \in {"succeeded", "failed"}
        THEN [job |-> counted, saving |-> FALSE,
              ret |-> StatusInfo(job.status, job.error_message, job.error_artifact_uri)]
        ELSE IF counted.poll_count < counted.max_polls_before_done
        THEN [job |-> [counted EXCEPT !.status = "running"], saving |-> FALSE,
              ret |-> StatusInfo("running", None, NoUri)]
        ELSE IF counted.fail_first_attempt
        THEN LET failed == [counted EXCEPT !.status = "failed",
                               !.error_message = "Simulated job failure (first attempt)."]
             IN  [job |-> failed, saving |-> ctx,
                  ret |-> StatusInfo(failed.status, failed.error_message,
                                     failed.error_artifact_uri)]
        ELSE LET ok == [counted EXCEPT !.status = "succeeded", !.error_message = None]
             IN  [job |-> ok, saving |-> FALSE,
                  ret |-> StatusInfo(ok.status, ok.error_message, ok.error_artifact_uri)]

\* A caller calls poll_status(job_id) for a job of the service.
PollBegin(c, job_id, ctx) ==
    /\ calls[c].pc = "idle"
    /\ job_id \in 1..Len(jobs)
    /\ IF c = "monitor"
       THEN mon.pc = "poll" /\ job_id = mon.job_id
       ELSE mon.client_polls < MaxClientPolls
    /\ LET r == PollStep(jobs[job_id], ctx)
           m == IF c = "monitor"
                THEN [mon EXCEPT !.pc = "polling", !.polled = Append(@, job_id)]
                ELSE [mon EXCEPT !.client_polls = @ + 1]
       IN  /\ jobs' = [jobs EXCEPT ![job_id] = r.job]
           /\ IF r.saving
              THEN /\ calls' = [calls EXCEPT ![c] = [pc |-> "saving", job_id |-> job_id]]
                   /\ mon' = m
                   /\ UNCHANGED jlog
              ELSE /\ UNCHANGED calls
                   /\ jlog' = [jlog EXCEPT ![job_id].reports = Append(@, r.ret)]
                   /\ mon' = IF c = "monitor"
                             THEN [m EXCEPT !.pc = "polled", !.status_info = r.ret]
                             ELSE m
    /\ UNCHANGED <<gvars, cvars, bvars, mvars, memory, chat, wiz, run_config_json, saved>>

\* arts.save returned: _record_failure_artifact sets error_artifact_uri, tells
\* the channel, and poll_status returns the job's fields.
PollSaved(c) ==
    /\ calls[c].pc = "saving"
    /\ LET job_id == calls[c].job_id
           job == [jobs[job_id] EXCEPT !.error_artifact_uri = ErrorUri(job_id)]
           ret == StatusInfo(job.status, job.error_message, job.error_artifact_uri)
       IN  /\ jobs' = [jobs EXCEPT ![job_id] = job]
           /\ jlog' = [jlog EXCEPT ![job_id].reports = Append(@, ret),
                                   ![job_id].artifacts = @ + 1]
           /\ mon' = IF c = "monitor"
                     THEN [mon EXCEPT !.pc = "polled", !.status_info = ret]
                     ELSE mon
    /\ calls' = [calls EXCEPT ![c] = NoCall]
    /\ UNCHANGED <<gvars, cvars, bvars, mvars, memory, chat, wiz, run_config_json, saved>>

\* long_job_monitor, lines 215-228: submit_job and the first message.
MonSubmit ==
    /\ mon.pc = "start"
    /\ jobs' = Append(jobs, JobState(mon.job_spec, TRUE))
    /\ jlog' = Append(jlog, NoLog)
    /\ mon' = [mon EXCEPT !.pc = "poll", !.job_id = Len(jobs) + 1, !.delay = base_delay]
    /\ UNCHANGED <<calls, gvars, cvars, bvars, mvars, memory, chat, wiz,
                   run_config_json, saved>>

Min(a, b) == IF a <= b THEN a ELSE b
\* delay = min(max_delay, delay * 2.0)
NextDelayLinear(delay) == Min(max_delay, delay + base_delay)
NextDelay(delay) == Min(max_delay, delay * 2)

SucceededResult(job_id, job_status) ==
    [job_id |-> job_id, status |-> job_status, error |-> None, error_artifact_uri |-> NoUri]
FailedResult(job_id, error_message, error_artifact_uri) ==
    [job_id |-> job_id, status |-> "failed", error |-> error_message,
     error_artifact_uri |-> error_artifact_uri]

\* Lines 232-259: what the monitor does with the status it polled.
MonHandle ==
    /\ mon.pc = "polled"
    /\ LET job_status == mon.status_info.status
       IN  mon' = IF job_status \in {"running", "pending"}
                  THEN [mon EXCEPT !.pc = "poll",
                                   !.sleeps = Append(@, mon.delay),
                                   !.delay = NextDelay(mon.delay)]
                  ELSE IF job_status = "succeeded"
                  THEN [mon EXCEPT !.pc = "done",
                                   !.result = SucceededResult(mon.job_id, job_status)]
                  ELSE [mon EXCEPT !.pc = "ask"]
    /\ UNCHANGED <<jobs, calls, jlog, gvars, cvars, bvars, mvars, memory, chat, wiz,
                   run_config_json, saved>>

\* response['choice'] == "Retry"
IsRetryNotAbort(choice) == choice # "Abort"
IsRetry(choice) == choice = "Retry"

\* Lines 262-282: the user answers the failure prompt.
MonAnswer(choice) ==
    /\ mon.pc = "ask"
    /\ IF IsRetry(choice)
       THEN /\ jobs' = Append(jobs, JobState(jobs[mon.job_id].job_spec, FALSE))
            /\ jlog' = Append(jlog, NoLog)
            /\ mon' = [mon EXCEPT !.pc = "poll", !.response = choice,
                                  !.retried = Append(@, [old |-> mon.job_id,
                                                         new |-> Len(jobs) + 1,
                                                         at |-> Len(mon.polled)]),
                                  !.job_id = Len(jobs) + 1,
                                  !.sleeps = <<>>,
                                  !.delay = base_delay]
       ELSE /\ mon' = [mon EXCEPT !.pc = "done", !.response = choice,
                                  !.result = FailedResult(mon.job_id,
                                                mon.status_info.error_message,
                                                mon.status_info.error_artifact_uri)]
            /\ UNCHANGED <<jobs, jlog>>
    /\ UNCHANGED <<calls, gvars, cvars, bvars, mvars, memory, chat, wiz,
                   run_config_json, saved>>

PollBeginAny == \E c \in Callers : \E j \in 1..Len(jobs) : \E ctx \in BOOLEAN : PollBegin(c, j, ctx)
PollSavedAny == \E c \in Callers : PollSaved(c)
MonAnswerAny == \E choice \in Choices : MonAnswer(choice)

NextJobs ==
    \/ MonSubmit
    \/ PollBeginAny
    \/ PollSavedAny
    \/ MonHandle
    \/ MonAnswerAny

\* The registered service, polled by the monitor and by another client.
SpecJobs == InitJobs /\ [][NextJobs]_vars

IsJobs == mon.pc # "idle"
JobIds == 1..Len(jobs)
\* The job submit_job created.
FirstAttempts == { j \in JobIds : jobs[j].fail_first_attempt }
Rank(job_status) ==
    CASE job_status = "pending" -> 0
      [] job_status = "running" -> 1
      [] job_status \in {"succeeded", "failed"} -> 2

\* C13: a job created by submit_job reports "running" on its first 4 polls
\* and "failed" from then on; a job created by reset_for_retry never reports
\* "failed", and reports "succeeded" once it stops running.
C13_FirstAttemptFailsAfterFourPolls ==
    \A j \in JobIds :
        LET r == jlog[j].reports
        IN  IF jobs[j].fail_first_attempt
            THEN \A b \in 1..Len(r) :
                    /\ b <= 4 => r[b].status = "running"
                    /\ b > 4 => r[b].status = "failed"
            ELSE \A b \in 1..Len(r) : r[b].status \in {"running", "succeeded"}

\* C14: the statuses poll_status reports for a job only move forward along
\* pending -> running -> (succeeded | failed); once a poll reported succeeded
\* or failed, every later poll of that job returns the same status,
\* error_message and error_artifact_uri; at most one failure artifact is
\* recorded for a job.
C14_TerminalStatusIsFinal ==
    \A j \in JobIds :
        LET r == jlog[j].reports
        IN  /\ \A a \in 1..Len(r) : \A b \in a..Len(r) :
                  /\ Rank(r[a].status) <= Rank(r[b].status)
                  /\ Rank(r[a].status) = 2 => r[b] = r[a]
            /\ r # <<>> => Rank(r[Len(r)].status) <= Rank(jobs[j].status)
            /\ jlog[j].artifacts <= 1

\* C15: the monitor's sleep before the next poll starts at 1, doubles after
\* every "running" or "pending" poll up to the cap of 8, never exceeds 8, and
\* is 1 again when a Retry starts polling a new job.
C15_ExponentialBackoff ==
    (IsJobs /\ mon.pc # "start") =>
        /\ mon.delay >= base_delay /\ mon.delay <= max_delay
        /\ \A j \in 1..Len(mon.sleeps) :
              mon.sleeps[j] = IF j = 1 THEN 1 ELSE Min(8, 2 * mon.sleeps[j - 1])
        /\ mon.delay = IF mon.sleeps = <<>> THEN 1
                       ELSE Min(8, 2 * mon.sleeps[Len(mon.sleeps)])
        /\ \A j \in 1..Len(mon.sleeps) : mon.sleeps[j] <= 8
\* After a Retry the monitor slept 1, 2 and 4 seconds between the polls of
\* the new job.
C15_Witness ==
    /\ IsJobs
    /\ mon.response = "Retry"
    /\ mon.sleeps = <<1, 2, 4>>
    /\ mon.delay = 8

\* The job the monitor polls at its j-th poll: the one submitted, or the one
\* the last Retry before that poll created.
PolledJob(j) ==
    LET rs == { t \in 1..Len(mon.retried) : mon.retried[t].at < j }
    IN  IF rs = {} THEN CHOOSE f \in FirstAttempts : TRUE
        ELSE mon.retried[CHOOSE t \in rs : \A u \in rs : u <= t].new

\* C16: long_job_monitor returns either "succeeded", for the job whose poll
\* reported succeeded, or "failed", with the failed job's id and error, after
\* an answer other than "Retry" to a failure prompt, and every such answer
\* ends it that way; a Retry makes job_id the id reset_for_retry returned, and
\* every later poll is of that job.
C16_ReturnsAndRetry ==
    IsJobs =>
        /\ mon.pc = "done" =>
              \/ /\ mon.result.status = "succeeded"
                 /\ mon.status_info.status = "succeeded"
                 /\ mon.result.job_id = mon.job_id
                 /\ mon.polled[Len(mon.polled)] = mon.result.job_id
                 /\ jobs[mon.result.job_id].status = "succeeded"
                 /\ mon.result.error = None
              \/ /\ mon.result.status = "failed"
                 /\ mon.response \notin {"", "Retry"}
                 /\ mon.result.job_id = mon.job_id
                 /\ jobs[mon.result.job_id].status = "failed"
                 /\ mon.result.error = jobs[mon.result.job_id].error_message
        /\ mon.response \notin {"", "Retry"} =>
              mon.pc = "done" /\ mon.result.status = "failed"
        /\ \A t \in 1..Len(mon.retried) :
              /\ mon.retried[t].new \notin 1..mon.retried[t].old
              /\ jobs[mon.retried[t].old].status = "failed"
              /\ ~jobs[mon.retried[t].new].fail_first_attempt
        /\ \A j \in 1..Len(mon.polled) : mon.polled[j] = PolledJob(j)
        /\ mon.pc \notin {"start"} => mon.job_id = PolledJob(Len(mon.polled) + 1)
\* The first job failed, the user chose Retry, and the monitor returned
\* "succeeded" for the new job after polling both.
C16_Witness ==
    /\ IsJobs
    /\ mon.pc = "done"
    /\ mon.response = "Retry"
    /\ mon.result.status = "succeeded"
    /\ mon.result.job_id = 2
    /\ \E a, b \in 1..Len(mon.polled) : mon.polled[a] = 1 /\ mon.polled[b] = 2

(***************************************************************************)
(* channel_wizard (2_channel_wizard_interactive_workflow.py).              *)
(* An answer is a sequence of characters. A float is kept in thousandths:  *)
(* the answers have at most three decimals.                                *)
(***************************************************************************)
Digits == <<"0","1","2","3","4","5","6","7","8","9">>
IsDigits(x) == \A j \in 1..Len(x) : x[j] \in Range(Digits)
RECURSIVE NatVal(_)
NatVal(x) ==
    IF x = <<>> THEN 0
    ELSE NatVal(SubSeq(x, 1, Len(x) - 1)) * 10 + (IndexOf(Digits, x[Len(x)]) - 1)
Unsigned(x) == IF x # <<>> /\ x[1] \in {"+", "-"} THEN Tail(x) ELSE x
Sign(x) == IF x # <<>> /\ x[1] = "-" THEN 0 - 1 ELSE 1
Pow10(e) == CASE e = 0 -> 1 [] e = 1 -> 10 [] e = 2 -> 100 [] e = 3 -> 1000

\* int(steps_str): ok is FALSE where Python raises ValueError.
int(x) ==
    LET u == Unsigned(x)
    IN  IF u # <<>> /\ IsDigits(u)
        THEN [ok |-> TRUE, v |-> Sign(x) * NatVal(u)]
        ELSE [ok |-> FALSE, v |-> 0]

NoneFloat == [kind |-> "None", milli |-> 0]
\* float(lr_str): a decimal, "nan" or "inf" in any case, with a sign.
float(x) ==
    LET u == lower(Unsigned(x))
        dots == { j \in 1..Len(u) : u[j] = "." }
        bad == [ok |-> FALSE, kind |-> "None", milli |-> 0]
    IN  IF u = <<"n","a","n">>
        THEN [ok |-> TRUE, kind |-> "nan", milli |-> 0]
        ELSE IF u = <<"i","n","f">>
        THEN [ok |-> TRUE, kind |-> "inf", milli |-> Sign(x)]
        ELSE IF dots = {}
        THEN IF u # <<>> /\ IsDigits(u)
             THEN [ok |-> TRUE, kind |-> "num", milli |-> Sign(x) * NatVal(u) * 1000]
             ELSE bad
        ELSE IF Cardinality(dots) = 1
        THEN LET d == CHOOSE j \in dots : TRUE
                 ip == SubSeq(u, 1, d - 1)
                 fp == SubSeq(u, d + 1, Len(u))
             IN  IF (ip # <<>> \/ fp # <<>>) /\ IsDigits(ip) /\ IsDigits(fp) /\ Len(fp) <= 3
                 THEN [ok |-> TRUE, kind |-> "num",
                       milli |-> Sign(x) * (NatVal(ip) * 1000 + NatVal(fp) * Pow10(3 - Len(fp)))]
                 ELSE bad
        ELSE bad
\* learning_rate <= 0, false of a NaN as every comparison with it
NonPositive(f) ==
    \/ f.kind = "num" /\ f.milli <= 0
    \/ f.kind = "inf" /\ f.milli < 0

\* What the user types at an ask_text prompt.
WizardTexts ==
    { <<>>, <<" ">>, <<" ","a","i"," ">>, <<"t","e","n">>, <<"1","0">>, <<" ","7"," ">>,
      <<"0">>, <<"-","3">>, <<"2",".","5">>, <<"0",".","0","0","1">>,
      <<"N","a","N">>, <<"i","n","f">> }
YesNo == { "Yes", "No", "yes" }
ReviewChoices == { "Confirm", "Restart", "Cancel", "confirm" }

ExperimentConfig(project, steps, advanced_mode, learning_rate, debug_logging) ==
    [project |-> project, steps |-> steps, advanced_mode |-> advanced_mode,
     learning_rate |-> learning_rate, debug_logging |-> debug_logging]
NoConfig == ExperimentConfig(<<>>, 0, FALSE, NoneFloat, FALSE)
NoRound == [project |-> <<>>, steps |-> <<>>, adv |-> "", lr |-> <<>>, dbg |-> ""]

InitWizard ==
    /\ NoGraph
    /\ InitBatchIdle
    /\ InitCounterIdle
    /\ InitChatIdle
    /\ InitJobsIdle
    /\ run_config_json = NoFile
    /\ saved = <<>>
    /\ wiz = [pc |-> "project", project |-> <<>>, steps |-> 0, advanced |-> FALSE,
              learning_rate |-> NoneFloat, debug_logging |-> FALSE,
              has_config |-> FALSE, config |-> NoConfig, choice |-> "",
              restarts |-> 0, reasked |-> 0, round |-> NoRound,
              result |-> [status |-> "none", has_config |-> FALSE, config |-> NoConfig]]

\* An invalid answer: the question is asked again.
Reask == [wiz EXCEPT !.reasked = @ + 1]

\* Lines 104-107: the project name.
WizProject(ans) ==
    /\ wiz.pc = "project"
    /\ IF strip(ans) = <<>>
       THEN wiz.reasked < MaxReasks /\ wiz' = Reask
       ELSE wiz' = [wiz EXCEPT !.pc = "steps", !.project = ans, !.round.project = ans]
    /\ UNCHANGED <<gvars, cvars, bvars, mvars, memory, chat, jobs, calls, jlog, mon,
                   run_config_json, saved>>

\* Lines 110-121: the number of steps.
WizSteps(ans) ==
    /\ wiz.pc = "steps"
    /\ LET r == int(strip(ans))
       IN  IF r.ok /\ r.v > 0
           THEN wiz' = [wiz EXCEPT !.pc = "advanced", !.steps = r.v, !.round.steps = ans]
           ELSE wiz.reasked < MaxReasks /\ wiz' = Reask
    /\ UNCHANGED <<gvars, cvars, bvars, mvars, memory, chat, jobs, calls, jlog, mon,
                   run_config_json, saved>>

\* Lines 128-138 and, without advanced mode, 161-178.
WizAdvanced(choice) ==
    /\ wiz.pc = "advanced"
    /\ LET advanced == (choice = "Yes")
       IN  wiz' = IF advanced
                  THEN [wiz EXCEPT !.pc = "lr", !.advanced = TRUE,
                                   !.learning_rate = NoneFloat, !.debug_logging = FALSE,
                                   !.round.adv = choice]
                  ELSE [wiz EXCEPT !.pc = "review", !.advanced = FALSE,
                                   !.learning_rate = NoneFloat, !.debug_logging = FALSE,
                                   !.round.adv = choice,
                                   !.has_config = TRUE,
                                   !.config = ExperimentConfig(strip(wiz.project), wiz.steps,
                                                               FALSE, NoneFloat, FALSE)]
    /\ UNCHANGED <<gvars, cvars, bvars, mvars, memory, chat, jobs, calls, jlog, mon,
                   run_config_json, saved>>

\* Lines 140-151: the learning rate.
WizLearningRate(ans) ==
    /\ wiz.pc = "lr"
    /\ LET r == float(strip(ans))
       IN  IF r.ok /\ ~NonPositive(r)
           THEN wiz' = [wiz EXCEPT !.pc = "debug",
                                   !.learning_rate = [kind |-> r.kind, milli |-> r.milli],
                                   !.round.lr = ans]
           ELSE wiz.reasked < MaxReasks /\ wiz' = Reask
    /\ UNCHANGED <<gvars, cvars, bvars, mvars, memory, chat, jobs, calls, jlog, mon,
                   run_config_json, saved>>

\* Lines 154-178: the debug flag; the candidate configuration is built.
WizDebug(choice) ==
    /\ wiz.pc = "debug"
    /\ wiz' = [wiz EXCEPT !.pc = "review", !.debug_logging = (choice = "Yes"),
                          !.round.dbg = choice,
                          !.has_config = TRUE,
                          !.config = ExperimentConfig(strip(wiz.project), wiz.steps,
                                        wiz.advanced, wiz.learning_rate, choice = "Yes")]
    /\ UNCHANGED <<gvars, cvars, bvars, mvars, memory, chat, jobs, calls, jlog, mon,
                   run_config_json, saved>>

\* Lines 186-193: what the review answer leads to.
ReviewOutcomeLax(choice) ==
    CASE choice = "Cancel" -> "cancel"
      [] choice = "Restart" -> "restart"
      [] OTHER -> "save"
ReviewOutcome(choice) ==
    CASE choice = "Confirm" -> "save"
      [] choice = "Restart" -> "restart"
      [] OTHER -> "cancel"

\* Lines 180-199: the review answer.
WizReview(choice) ==
    /\ wiz.pc = "review"
    /\ LET o == ReviewOutcome(choice)
       IN  CASE o = "save" -> wiz' = [wiz EXCEPT !.pc = "finalize", !.choice = choice]
             [] o = "restart" ->
                    /\ wiz.restarts < MaxRestarts
                    /\ wiz' = [wiz EXCEPT !.pc = "project", !.choice = choice,
                                          !.has_config = FALSE, !.config = NoConfig,
                                          !.restarts = @ + 1, !.round = NoRound]
             [] o = "cancel" ->
                    wiz' = [wiz EXCEPT !.pc = "done", !.choice = choice,
                                       !.result = [status |-> "cancelled",
                                                   has_config |-> FALSE,
                                                   config |-> NoConfig]]
    /\ UNCHANGED <<gvars, cvars, bvars, mvars, memory, chat, jobs, calls, jlog, mon,
                   run_config_json, saved>>

\* Lines 204-236: run_config.json is written, the artifact saved, and the
\* wizard returns.
WizFinalize ==
    /\ wiz.pc = "finalize"
    /\ wiz.has_config
    /\ run_config_json' = [writes |-> run_config_json.writes + 1, content |-> <<wiz.config>>]
    /\ saved' = Append(saved, [kind |-> "run_config", config |-> wiz.config])
    /\ wiz' = [wiz EXCEPT !.pc = "done",
                          !.result = [status |-> "ok", has_config |-> TRUE,
                                      config |-> wiz.config]]
    /\ UNCHANGED <<gvars, cvars, bvars, mvars, memory, chat, jobs, calls, jlog, mon>>

WizProjectAny == \E ans \in WizardTexts : WizProject(ans)
WizStepsAny == \E ans \in WizardTexts : WizSteps(ans)
WizAdvancedAny == \E choice \in YesNo : WizAdvanced(choice)
WizLearningRateAny == \E ans \in WizardTexts : WizLearningRate(ans)
WizDebugAny == \E choice \in YesNo : WizDebug(choice)
WizReviewAny == \E choice \in ReviewChoices : WizReview(choice)

NextWizard ==
    \/ WizProjectAny
    \/ WizStepsAny
    \/ WizAdvancedAny
    \/ WizLearningRateAny
    \/ WizDebugAny
    \/ WizReviewAny
    \/ WizFinalize

SpecWizard == InitWizard /\ [][NextWizard]_vars

IsWizard == wiz.pc # "idle"

\* The configuration the accepted answers of one round make.
RoundConfig(r) ==
    LET lr == float(strip(r.lr))
    IN  ExperimentConfig(strip(r.project), int(strip(r.steps)).v, r.adv = "Yes",
                         IF r.adv = "Yes" THEN [kind |-> lr.kind, milli |-> lr.milli]
                         ELSE NoneFloat,
                         r.adv = "Yes" /\ r.dbg = "Yes")

\* C17: run_config.json is written and the artifact saved exactly once when
\* the last review answer is "Confirm" and never otherwise; after "Restart"
\* the wizard is at Step 1 with no configuration, and the configuration
\* returned is made of the answers given after the last Restart only; on
\* "Cancel" or any other answer the wizard returns status "cancelled" and no
\* config, and nothing was saved.
C17_SaveOnlyOnConfirm ==
    IsWizard =>
        /\ run_config_json.writes = Len(saved)
        /\ Len(saved) <= 1
        /\ Len(saved) = 1 <=> (wiz.pc = "done" /\ wiz.choice = "Confirm")
        /\ wiz.pc = "finalize" => wiz.choice = "Confirm"
        /\ (wiz.pc = "done" /\ wiz.choice = "Confirm") =>
              /\ wiz.result.status = "ok"
              /\ wiz.result.has_config
              /\ wiz.result.config = RoundConfig(wiz.round)
              /\ saved[1].config = wiz.result.config
              /\ run_config_json.content = <<wiz.result.config>>
        /\ (wiz.pc = "done" /\ wiz.choice # "Confirm") =>
              /\ wiz.result.status = "cancelled"
              /\ ~wiz.result.has_config
              /\ run_config_json = NoFile
        /\ (wiz.choice = "Restart" /\ wiz.round = NoRound) =>
              wiz.pc = "project" /\ ~wiz.has_config
\* After two restarts the user confirmed a configuration without advanced
\* mode, and it was saved.
C17_Witness ==
    /\ IsWizard
    /\ wiz.pc = "done"
    /\ wiz.choice = "Confirm"
    /\ wiz.restarts = 2
    /\ Len(saved) = 1
    /\ ~saved[1].config.advanced_mode
    /\ saved[1].config.project = <<"a","i">>

Positive(f) ==
    \/ f.kind = "num" /\ f.milli > 0
    \/ f.kind = "inf" /\ f.milli > 0

\* C18: whenever the wizard returns status "ok", the config has a non-empty
\* stripped project name, steps that is a positive integer, a positive
\* learning_rate exactly when advanced_mode is true and None otherwise, and
\* debug_logging false when advanced_mode is false.
C18_ValidConfig ==
    (IsWizard /\ wiz.result.status = "ok") =>
        LET c == wiz.result.config
        IN  /\ c.project # <<>>
            /\ strip(c.project) = c.project
            /\ c.steps \in Nat /\ c.steps > 0
            /\ c.advanced_mode => Positive(c.learning_rate)
            /\ ~c.advanced_mode => c.learning_rate = NoneFloat
            /\ ~c.advanced_mode => ~c.debug_logging

(***************************************************************************)
(* map_reduce (1_graphify_concurrency.py) and the durability of the        *)
(* checkpoints of resumable_work.                                          *)
(***************************************************************************)
IsMap == graph = "map_reduce"
Begun(nd) == status[nd] \in {"running", "succeeded"}

\* C19: in map_reduce, for every max_concurrency from 1 to MAX_WORKERS and in
\* every order of scheduling, a work node starts only after its own pick node
\* has finished and doubles what that node picked, reduce_sum starts only
\* after all five work nodes have finished, and the sum returned is
\* 2 * (vals[0] + ... + vals[4]), which is 30 for [1, 2, 3, 4, 5].
C19_MapReduceSum ==
    IsMap =>
        /\ k \in 1..MAX_WORKERS
        /\ \A j \in 1..MAX_WORKERS :
              /\ Begun(WorkIds[j]) => status[PickIds[j]] = "succeeded"
              /\ status[PickIds[j]] = "succeeded" => out[PickIds[j]] = vals[j]
              /\ status[WorkIds[j]] = "succeeded" => out[WorkIds[j]] = 2 * vals[j]
        /\ Begun("reduce_sum") =>
              \A j \in 1..MAX_WORKERS : status[WorkIds[j]] = "succeeded"
        /\ status["reduce_sum"] = "succeeded" =>
              /\ out["reduce_sum"] = 2 * (vals[1] + vals[2] + vals[3] + vals[4] + vals[5])
              /\ vals = <<1, 2, 3, 4, 5>> => out["reduce_sum"] = 30
\* With max_concurrency 2 the graph returned 30 for [1, 2, 3, 4, 5].
C19_Witness ==
    /\ IsMap
    /\ k = 2
    /\ vals = <<1, 2, 3, 4, 5>>
    /\ status["reduce_sum"] = "succeeded"
    /\ out["reduce_sum"] = 30

\* The iteration index a run of resumable_work under MainRun would load.
RecoverableI == LoadState(files[FileOf(_ckpt_path(MainRun, NodeIdResumable))]).i

\* C20: whenever the process is down, after a return, a crash or an
\* interruption at any point, the iteration index recoverable from the
\* checkpoint file is not lower than the index of any checkpoint written
\* before, and never exceeds n.
C20_CheckpointsDurable ==
    (IsRestart /\ proc = "down") =>
        /\ RecoverableI <= in_n
        /\ hist.last_i # NoCkpt => RecoverableI >= hist.last_i

====
